---- MODULE Spec2Model ----
(***************************************************************************)
(* State-machine model of the healthcare-ecosystem demo suite:             *)
(*   app_core/db.py   - schema, get_engine, init_db, is_seeded             *)
(*   app_core/seed.py - seed_core                                          *)
(*   streamlit-demos/pages/1_Supply_Chain.py - the "Generate Orders" form  *)
(*                                                                         *)
(* A table is a sequence of row records in rowid order.  Floats are kept   *)
(* as scaled integers (the scale is given at each draw).  Dates are        *)
(* proleptic Gregorian ordinals, as datetime.date.toordinal().             *)
(***************************************************************************)
EXTENDS Integers, Sequences, FiniteSets, TLC

VARIABLES
    dataDir,   \* DATA_DIR exists on disk (get_engine's mkdir)
    schema,    \* the nine tables exist in healthcare.db (init_db)
    store,     \* committed rows of healthcare.db, one sequence per table
    twin,      \* a second, independent store (used by the two-run specification)
    last,      \* the last operation: its name, arguments, outcome and the rows before it
    calls,     \* how many seed_core calls and form submissions have run
    probe      \* the last application of a pure helper (date window, score)

vars == <<dataDir, schema, store, twin, last, calls, probe>>

(***************************************************************************)
(* Bounds of the model.                                                    *)
(***************************************************************************)
Levels == 4          \* distinct outcomes of one generator draw
StreamPeriod == 10   \* period of a modelled generator stream
Run == 2             \* consecutive stream positions that share an outcome
MaxSeed == 3         \* seeds are 0..MaxSeed
MaxLocations == 8    \* largest num_locations argument
MaxOffset == 1       \* Faker name families are 0..MaxOffset
MaxPrefix == 4       \* sidebar selections are the first 1..MaxPrefix locations, or all
MaxSubmissions == 1  \* "Generate Orders" submissions per behaviour
MaxSeedCalls == 2    \* seed_core calls per behaviour

(***************************************************************************)
(* Small helpers.                                                          *)
(***************************************************************************)
Max(a, b) == IF a >= b THEN a ELSE b
Min(a, b) == IF a <= b THEN a ELSE b

RECURSIVE Pow(_, _)
Pow(b, e) == IF e = 0 THEN 1 ELSE b * Pow(b, e - 1)

Range(s) == {s[i] : i \in DOMAIN s}

(***************************************************************************)
(* numpy.random.default_rng(seed): a deterministic stream per seed.        *)
(* The bit generator itself is numpy's; it is modelled as a family of      *)
(* periodic streams of StreamPeriod draws over Levels outcomes.  The seed  *)
(* selects the stream: its base-Levels digits say, for each run of Run      *)
(* consecutive positions, how far below the top outcome the draws fall     *)
(* (seed 0 is the stream of top outcomes only).                            *)
(***************************************************************************)
Seeds == 0..MaxSeed

default_rng(seed) == [seed |-> seed, pos |-> 0]

\* the raw outcome of the next draw, in 0..Levels-1
Level(rng) == (Levels - 1) - ((rng.seed \div Pow(Levels, rng.pos \div Run)) % Levels)

\* the generator after k draws
Advance(rng, k) == [rng EXCEPT !.pos = (@ + k) % StreamPeriod]

\* rng.uniform(lo, hi) rounded by np.round to the scale of lo and hi
UniformDraw(rng, lo, hi) == lo + ((hi - lo) * Level(rng)) \div (Levels - 1)

\* rng.integers(low, high): an integer in low..high-1
IntegersDraw(rng, low, high) == low + ((high - 1 - low) * Level(rng)) \div (Levels - 1)

\* rng.uniform() < 0.5, the draw being Level/Levels in [0, 1)
HalfDraw(rng) == 2 * Level(rng) < Levels

\* np.round(rng.normal(6.2, 1.0), 2) in hundredths: mean 620, deviates of +-100 per step
NormalDraw(rng) == 620 + 100 * (2 * Level(rng) - (Levels - 1))

(***************************************************************************)
(* datetime.date arithmetic on ordinals.                                   *)
(***************************************************************************)
MinYear == 2022
MaxYear == 2027

IsLeap(y) == (y % 4 = 0) /\ ((y % 100 # 0) \/ (y % 400 = 0))

DaysInMonth(y, m) ==
    IF m = 2 THEN (IF IsLeap(y) THEN 29 ELSE 28)
    ELSE IF m \in {4, 6, 9, 11} THEN 30 ELSE 31

DaysBeforeYear(y) == (y - 1) * 365 + (y - 1) \div 4 - (y - 1) \div 100 + (y - 1) \div 400

RECURSIVE DaysBeforeMonth(_, _)
DaysBeforeMonth(y, m) == IF m = 1 THEN 0 ELSE DaysBeforeMonth(y, m - 1) + DaysInMonth(y, m - 1)

\* date(y, m, d).toordinal()
Ordinal(y, m, d) == DaysBeforeYear(y) + DaysBeforeMonth(y, m) + d

\* date.fromordinal(o) as a record
YearOf(o) == CHOOSE y \in (MinYear - 2)..(MaxYear + 1) :
                DaysBeforeYear(y) < o /\ o <= DaysBeforeYear(y + 1)
MonthOf(o) == LET y == YearOf(o) IN
              CHOOSE m \in 1..12 :
                Ordinal(y, m, 1) <= o /\ o < Ordinal(y, m, 1) + DaysInMonth(y, m)
DayOf(o) == o - Ordinal(YearOf(o), MonthOf(o), 1) + 1

\* d.replace(day=1)
ReplaceDay1(o) == o - (DayOf(o) - 1)

\* seed.py:115  start = date.today().replace(day=1) - timedelta(days=365)
WindowStart(today) == ReplaceDay1(today) - 365

\* seed.py:121  month_start = start.replace(day=1) + timedelta(days=30 * month_offset)
MonthStart(start, month_offset) == ReplaceDay1(start) + 30 * month_offset


(***************************************************************************)
(* Schema (db.py) and generic row operations.                              *)
(***************************************************************************)
Tables == {"locations", "location_geo", "items", "inventory", "suppliers",
           "supplier_metrics", "poct_tests", "orders", "order_lines"}

\* the seven tables seed_core writes
SeededTables == Tables \ {"orders", "order_lines"}

\* metadata.create_all on a fresh file: every table exists and is empty
EmptyStore == [t \in Tables |-> <<>>]

\* INTEGER PRIMARY KEY: the next rowid is the largest one plus one
NextId(table) == IF table = <<>> THEN 1 ELSE table[Len(table)].id + 1

\* conn.execute(insert(table), rows): the rows appended in order, ids assigned
InsertRows(table, rows) ==
    table \o [i \in 1..Len(rows) |-> rows[i] @@ [id |-> NextId(table) + i - 1]]

\* a unique=True column: no value of the new rows repeats an old or another new one
UniqueOk(table, rows, col) ==
    /\ \A i \in DOMAIN rows : \A j \in DOMAIN table : rows[i][col] # table[j][col]
    /\ \A i, j \in DOMAIN rows : i # j => rows[i][col] # rows[j][col]

\* select(table.c.id): the ids in rowid order
Ids(table) == [i \in 1..Len(table) |-> table[i].id]

\* a transaction in progress: its view of the tables, the generator, whether a
\* statement has raised (after which no later statement runs) and on which table
Tx(tables, rng) == [tables |-> tables, rng |-> rng, raised |-> FALSE, at |-> ""]

\* one insert inside a transaction, raising IntegrityError on a unique violation
TxInsert(tx, name, rows, uniqueCols) ==
    IF \A col \in uniqueCols : UniqueOk(tx.tables[name], rows, col)
    THEN [tx EXCEPT !.tables[name] = InsertRows(@, rows)]
    ELSE [tx EXCEPT !.raised = TRUE, !.at = name]

\* (a connection in autocommit: what ran before the failing statement stays)
EngineBegin_NoRollback(before, tx) == tx.tables

\* "with engine.begin() as conn": commit on normal exit, roll back when the body raised
EngineBegin(before, tx) == IF tx.raised THEN before ELSE tx.tables

(***************************************************************************)
(* seed_core, step by step (seed.py).                                      *)
(***************************************************************************)
base_locations == <<"Bangkok Central", "Chiang Mai North", "Phuket South",
                    "Pattaya East", "Khon Kaen Northeast", "Hat Yai Deep South">>

inventory_items == <<
    [name |-> "HbA1c Test Strips", min_stock |-> 200, cost_thb |-> 2500],
    [name |-> "Control Solutions", min_stock |-> 50, cost_thb |-> 150],
    [name |-> "Lancets", min_stock |-> 500, cost_thb |-> 800],
    [name |-> "Cartridges", min_stock |-> 100, cost_thb |-> 1200],
    [name |-> "Quality Controls", min_stock |-> 75, cost_thb |-> 450] >>

NumSuppliers == 8
Months == 12
DaysPerMonth == 28
Chunk == 5000

(***************************************************************************)
(* Faker (seed.py:21, an unseeded module-level instance).  One outcome of  *)
(* the instance over a seed_core call is a name family and which names     *)
(* repeat: none, or the cities (every fake.city() call returns the         *)
(* family's first city), or a company (the last fake.company() call        *)
(* returns the first company again).                                       *)
(***************************************************************************)
FakerOutcomes ==
    [offset : 0..MaxOffset, repeat : {"none"}] \cup [offset : {0}, repeat : {"city", "company"}]

CityName(o, i) == "City " \o ToString(o) \o "." \o ToString(i)
CompanyName(o, i) == "Company " \o ToString(o) \o "." \o ToString(i)

\* the c-th fake.city() of the call
fake_city(faker, c) == CityName(faker.offset, IF faker.repeat = "city" THEN 1 ELSE c)

\* the k-th fake.company() of the call
fake_company(faker, k) ==
    CompanyName(faker.offset, IF faker.repeat = "company" /\ k = NumSuppliers THEN 1 ELSE k)

\* f"Branch {len(names)+1} - {fake.city()}"
BranchName(k, city) == "Branch " \o ToString(k) \o " - " \o city

RECURSIVE PadNames_OneMore(_, _, _, _)
\* (the loop run with <= in place of <)
PadNames_OneMore(names, num_locations, faker, c) ==
    IF Len(names) <= num_locations
    THEN PadNames_OneMore(Append(names, BranchName(Len(names) + 1, fake_city(faker, c + 1))),
                          num_locations, faker, c + 1)
    ELSE names

RECURSIVE PadNames(_, _, _, _)
\* the while loop of seed.py:43-44, c calls of fake.city() having been made
PadNames(names, num_locations, faker, c) ==
    IF Len(names) < num_locations
    THEN PadNames(Append(names, BranchName(Len(names) + 1, fake_city(faker, c + 1))),
                  num_locations, faker, c + 1)
    ELSE names

\* seed.py:49-54: one (lat, lon) pair per location id, in micro-degrees
Coords(rng, loc_ids) ==
    [i \in 1..Len(loc_ids) |->
        [location_id |-> loc_ids[i],
         lat |-> UniformDraw(Advance(rng, 2 * (i - 1)), 5600000, 20500000),
         lon |-> UniformDraw(Advance(rng, 2 * (i - 1) + 1), 97400000, 105600000)]]

\* seed.py:39-55
StepLocations(tx, num_locations, faker) ==
    IF tx.raised \/ Len(tx.tables.locations) # 0 THEN tx
    ELSE LET names == PadNames(base_locations, num_locations, faker, 0)
             t1 == TxInsert(tx, "locations",
                            [i \in 1..Len(names) |-> [name |-> names[i], region |-> "NULL"]],
                            {"name"})
             loc_ids == Ids(t1.tables.locations)
             t2 == TxInsert(t1, "location_geo", Coords(t1.rng, loc_ids), {"location_id"})
         IN IF t1.raised THEN t1
            ELSE [t2 EXCEPT !.rng = Advance(@, 2 * Len(loc_ids))]

\* seed.py:65-67
StepItems(tx) ==
    IF tx.raised \/ Len(tx.tables.items) # 0 THEN tx
    ELSE TxInsert(tx, "items", inventory_items, {"name"})

\* (the draw taken from min_stock - 120 upwards, without either floor)
StockDraw_Unfloored(rng, min_stock) ==
    IntegersDraw(rng, min_stock - 120, min_stock + 300)

\* seed.py:77-81: the stock drawn for an item with threshold min_stock
StockDraw(rng, min_stock) ==
    Max(0, IntegersDraw(rng, Max(0, min_stock - 120), min_stock + 300))

\* seed.py:72-82: one row per location row and item row, locations outermost
InvRows(rng, locs, its) ==
    [k \in 1..(Len(locs) * Len(its)) |->
        LET li == ((k - 1) \div Len(its)) + 1
            ii == ((k - 1) % Len(its)) + 1
        IN [location_id |-> locs[li].id,
            item_id |-> its[ii].id,
            current_stock |-> StockDraw(Advance(rng, k - 1), its[ii].min_stock)]]

\* seed.py:70-83
StepInventory(tx) ==
    IF tx.raised \/ Len(tx.tables.inventory) # 0 THEN tx
    ELSE LET rows == InvRows(tx.rng, tx.tables.locations, tx.tables.items)
         IN [TxInsert(tx, "inventory", rows, {}) EXCEPT !.rng = Advance(@, Len(rows))]

\* (the suppliers step left out)
StepSuppliers_Skipped(tx, faker) == tx

\* seed.py:86-89
StepSuppliers(tx, faker) ==
    IF tx.raised \/ Len(tx.tables.suppliers) # 0 THEN tx
    ELSE TxInsert(tx, "suppliers",
                  [k \in 1..NumSuppliers |-> [name |-> fake_company(faker, k)]], {"name"})

\* np.round(x, 1) of a value in hundredths, to tenths: round half to even
RoundTenths(x) ==
    LET q == x \div 10
        r == x % 10
    IN IF r < 5 THEN q
       ELSE IF r > 5 THEN q + 1
       ELSE IF q % 2 = 0 THEN q ELSE q + 1

\* np.clip(x, lo, hi)
Clip(x, lo, hi) == Max(lo, Min(x, hi))

\* (the defect weight written 0.8)
RawScore_DefectWeight(on_time, defect, lead) ==
    (70 * on_time - 8 * defect - 150 * lead + 30000) \div 10

\* seed.py:100: 0.7*on_time - 8*defect - 1.5*lead + 30, in hundredths
\* (on_time and lead in tenths, defect in hundredths)
RawScore(on_time, defect, lead) == 7 * on_time - 8 * defect - 15 * lead + 3000

\* seed.py:100,106: the stored performance_score, in tenths
PerformanceScore(on_time, defect, lead) ==
    RoundTenths(Clip(RawScore(on_time, defect, lead), 0, 10000))

\* seed.py:101-107
MetricRow(sid, on_time, defect, lead) ==
    [supplier_id |-> sid,
     on_time_pct |-> on_time,
     defect_rate_pct |-> defect,
     lead_time_days |-> lead,
     performance_score |-> PerformanceScore(on_time, defect, lead)]

\* seed.py:96-107: three draws per supplier id
MetricRows(rng, sup_ids) ==
    [i \in 1..Len(sup_ids) |->
        MetricRow(sup_ids[i],
                  UniformDraw(Advance(rng, 3 * (i - 1)), 880, 1000),
                  UniformDraw(Advance(rng, 3 * (i - 1) + 1), 20, 250),
                  UniformDraw(Advance(rng, 3 * (i - 1) + 2), 20, 90))]

\* seed.py:92-108
StepMetrics(tx) ==
    IF tx.raised \/ Len(tx.tables.supplier_metrics) # 0 THEN tx
    ELSE LET rows == MetricRows(tx.rng, Ids(tx.tables.suppliers))
         IN [TxInsert(tx, "supplier_metrics", rows, {}) EXCEPT !.rng = Advance(@, Len(rows) * 3)]

\* seed.py:123-131: the rows of one day, the generator standing before its first draw
DayRows(rng, loc_id, month_start, d) ==
    IF HalfDraw(rng)
    THEN LET daily_tests == IntegersDraw(Advance(rng, 1), 1, 6)
         IN [t \in 1..daily_tests |->
                [location_id |-> loc_id,
                 test_date |-> month_start + d,
                 hba1c_result |-> NormalDraw(Advance(rng, 1 + t))]]
    ELSE <<>>

\* the number of draws that day consumes
DayDraws(rng) ==
    IF HalfDraw(rng) THEN 2 + IntegersDraw(Advance(rng, 1), 1, 6) ELSE 1

RECURSIVE PoctDays(_, _, _, _)
\* seed.py:122: for d in range(0, 28), from day d on
PoctDays(rng, loc_id, month_start, d) ==
    IF d >= DaysPerMonth THEN [rows |-> <<>>, rng |-> rng]
    ELSE LET rest == PoctDays(Advance(rng, DayDraws(rng)), loc_id, month_start, d + 1)
         IN [rows |-> DayRows(rng, loc_id, month_start, d) \o rest.rows, rng |-> rest.rng]

RECURSIVE PoctMonths(_, _, _, _)
\* seed.py:120-121: for month_offset in range(0, 12), from month_offset on
PoctMonths(rng, loc_id, start, month_offset) ==
    IF month_offset >= Months THEN [rows |-> <<>>, rng |-> rng]
    ELSE LET this == PoctDays(rng, loc_id, MonthStart(start, month_offset), 0)
             rest == PoctMonths(this.rng, loc_id, start, month_offset + 1)
         IN [rows |-> this.rows \o rest.rows, rng |-> rest.rng]

\* PoctMonths for every generator state, for location 0 and a window starting on
\* Epoch: the rows of a location depend on the location id and the window start
\* only through their location_id and (by a shift of the date) test_date columns
Epoch == Ordinal(MinYear, 1, 1)
PoctTable ==
    [seed \in Seeds |->
        [pos \in 0..(StreamPeriod - 1) |->
            PoctMonths([seed |-> seed, pos |-> pos], 0, Epoch, 0)]]

\* seed.py:118-131: the rows of one location, PoctMonths(rng, loc_id, start, 0),
\* read off PoctTable
PoctLoc(rng, loc_id, start) ==
    LET g == PoctTable[rng.seed][rng.pos]
        shift == ReplaceDay1(start) - Epoch
    IN [rows |-> [i \in 1..Len(g.rows) |->
                    [location_id |-> loc_id,
                     test_date |-> g.rows[i].test_date + shift,
                     hba1c_result |-> g.rows[i].hba1c_result]],
        rng |-> g.rng]

RECURSIVE PoctLocs(_, _, _, _)
\* seed.py:118: for loc_id in loc_ids, from the i-th on
PoctLocs(rng, loc_ids, start, i) ==
    IF i > Len(loc_ids) THEN [rows |-> <<>>, rng |-> rng]
    ELSE LET this == PoctLoc(rng, loc_ids[i], start)
             rest == PoctLocs(this.rng, loc_ids, start, i + 1)
         IN [rows |-> this.rows \o rest.rows, rng |-> rest.rng]

RECURSIVE InsertChunks_SkipOne(_, _, _, _)
\* (the loop stepping by chunk + 1)
InsertChunks_SkipOne(table, rows, i, chunk) ==
    IF i >= Len(rows) THEN table
    ELSE InsertChunks_SkipOne(InsertRows(table, SubSeq(rows, i + 1, Min(i + chunk, Len(rows)))),
                              rows, i + chunk + 1, chunk)

RECURSIVE InsertChunks(_, _, _, _)
\* seed.py:135-136: for i in range(0, len(rows), chunk): insert rows[i : i + chunk]
InsertChunks(table, rows, i, chunk) ==
    IF i >= Len(rows) THEN table
    ELSE InsertChunks(InsertRows(table, SubSeq(rows, i + 1, Min(i + chunk, Len(rows)))),
                      rows, i + chunk, chunk)

\* seed.py:132-136: nothing is executed for an empty list
InsertPoct(table, rows, chunk) ==
    IF rows # <<>> THEN InsertChunks(table, rows, 0, chunk) ELSE table

\* seed.py:111-136
StepPoct(tx, today) ==
    IF tx.raised \/ Len(tx.tables.poct_tests) # 0 THEN tx
    ELSE LET gen == PoctLocs(tx.rng, Ids(tx.tables.locations), WindowStart(today), 1)
         IN [tx EXCEPT !.tables.poct_tests = InsertPoct(@, gen.rows, Chunk),
                       !.rng = gen.rng]

\* seed.py:24-136: the body of "with engine.begin() as conn", run on the committed tables
seed_core(tables, seed, num_locations, faker, today) ==
    StepPoct(
        StepMetrics(
            StepSuppliers(
                StepInventory(
                    StepItems(
                        StepLocations(Tx(tables, default_rng(seed)), num_locations, faker))),
                faker)),
        today)

(***************************************************************************)
(* Inputs of the operations.                                               *)
(***************************************************************************)
\* date.today() outcomes: 31 March after a leap day, and 1 November
Todays == {Ordinal(MinYear + 2, 3, 31), Ordinal(MaxYear - 1, 11, 1)}

\* num_locations: below, at and above the number of base locations
NumLocationsArgs == {Len(base_locations) - 1, Len(base_locations), MaxLocations}

(***************************************************************************)
(* The Supply Chain page: the inventory frame and the "Generate Orders"    *)
(* form (1_Supply_Chain.py).                                               *)
(***************************************************************************)
Approvers == {"Regional Manager", "Ops Director", "Pharmacy Lead"}

\* the sidebar multiselect: a subset of the page's six location names
Prefix(k) == {base_locations[i] : i \in 1..Min(k, Len(base_locations))}
Selections == {Prefix(k) : k \in 1..MaxPrefix} \cup {Range(base_locations)}

\* the rows of table whose column col equals v
Where(table, col, v) == SelectSeq(table, LAMBDA r : r[col] = v)

\* 1_Supply_Chain.py:170-181: inventory joined to locations and items, in inventory
\* row order, kept where the location is selected
InvDf(tables, selected) ==
    LET joinable(r) == /\ Where(tables.locations, "id", r.location_id) # <<>>
                       /\ Where(tables.items, "id", r.item_id) # <<>>
        rows == SelectSeq(tables.inventory, joinable)
        df == [i \in 1..Len(rows) |->
                 LET loc == Where(tables.locations, "id", rows[i].location_id)[1]
                     it == Where(tables.items, "id", rows[i].item_id)[1]
                 IN [Location |-> loc.name, Item |-> it.name,
                     CurrentStock |-> rows[i].current_stock,
                     MinimumRequired |-> it.min_stock]]
    IN SelectSeq(df, LAMBDA r : r.Location \in selected)

\* (x * 1.5).round().astype(int): pandas rounds half to even
RoundOneAndHalf(x) ==
    LET q == (3 * x) \div 2
    IN IF (3 * x) % 2 = 0 THEN q ELSE IF q % 2 = 0 THEN q ELSE q + 1

\* 1_Supply_Chain.py:314-316
RecommendedQty(min_stock, current_stock) == Max(0, RoundOneAndHalf(min_stock) - current_stock)

\* 1_Supply_Chain.py:310-316
ToOrder(tables, selected) ==
    LET below == SelectSeq(InvDf(tables, selected),
                           LAMBDA r : r.CurrentStock < r.MinimumRequired)
    IN [i \in 1..Len(below) |->
          below[i] @@ [Qty |-> RecommendedQty(below[i].MinimumRequired, below[i].CurrentStock)]]

RECURSIVE Unique(_)
\* Series.unique(): the distinct values in order of first appearance
Unique(s) ==
    IF s = <<>> THEN <<>>
    ELSE LET front == Unique(SubSeq(s, 1, Len(s) - 1))
         IN IF s[Len(s)] \in Range(front) THEN front ELSE Append(front, s[Len(s)])

\* Result.scalar_one(): the single row's first column; anything else raises
ScalarOneOk(rows) == Len(rows) = 1

RECURSIVE OrderLoop(_, _, _, _, _, _)
\* 1_Supply_Chain.py:337-347: one order per location of locs, from the i-th on, each
\* followed by its lines
OrderLoop(tx, to_order, locs, i, approver, urgentNow) ==
    IF tx.raised \/ i > Len(locs) THEN tx
    ELSE LET loc_rows == Where(tx.tables.locations, "name", locs[i])
             order_id == NextId(tx.tables.orders)
             subset == SelectSeq(to_order, LAMBDA r : r.Location = locs[i])
             lookupsOk == \A k \in DOMAIN subset :
                             ScalarOneOk(Where(tx.tables.items, "name", subset[k].Item))
             wanted == SelectSeq(subset, LAMBDA r : r.Qty > 0)
             lines == [k \in 1..Len(wanted) |->
                         [order_id |-> order_id,
                          item_id |-> Where(tx.tables.items, "name", wanted[k].Item)[1].id,
                          qty |-> wanted[k].Qty]]
         IN IF ~ScalarOneOk(loc_rows) \/ ~lookupsOk
            THEN [tx EXCEPT !.raised = TRUE, !.at = "orders"]
            ELSE OrderLoop(
                   [tx EXCEPT
                      !.tables.orders = InsertRows(@, <<[created_at |-> urgentNow.now,
                                                         location_id |-> loc_rows[1].id,
                                                         approver |-> approver,
                                                         urgent |-> urgentNow.urgent]>>),
                      !.tables.order_lines = InsertRows(@, lines)],
                   to_order, locs, i + 1, approver, urgentNow)

\* (an order for every selected location, below minimum or not)
generate_orders_EverySelected(tables, selected, approver, urgent, now) ==
    LET to_order == ToOrder(tables, selected)
        df == InvDf(tables, selected)
        locs == Unique([i \in 1..Len(df) |-> df[i].Location])
    IN OrderLoop(Tx(tables, default_rng(0)), to_order, locs, 1, approver,
                 [urgent |-> urgent, now |-> now])

\* (every stock below its recommended level raised to it as well)
generate_orders_Restocked(tables, selected, approver, urgent, now) ==
    LET to_order == ToOrder(tables, selected)
        locs == Unique([i \in 1..Len(to_order) |-> to_order[i].Location])
        tx == OrderLoop(Tx(tables, default_rng(0)), to_order, locs, 1, approver,
                        [urgent |-> urgent, now |-> now])
    IN [tx EXCEPT !.tables.inventory =
           [j \in DOMAIN @ |->
               [@[j] EXCEPT !.current_stock =
                   @ + RecommendedQty(inventory_items[((j - 1) % Len(inventory_items)) + 1].min_stock, @)]]]

\* 1_Supply_Chain.py:334-347: the body of the submission's transaction
generate_orders(tables, selected, approver, urgent, now) ==
    LET to_order == ToOrder(tables, selected)
        locs == Unique([i \in 1..Len(to_order) |-> to_order[i].Location])
    IN OrderLoop(Tx(tables, default_rng(0)), to_order, locs, 1, approver,
                 [urgent |-> urgent, now |-> now])

(***************************************************************************)
(* The state machine.                                                      *)
(***************************************************************************)
NoOp == [op |-> "none", raised |-> FALSE, at |-> "", result |-> FALSE, before |-> EmptyStore,
         n |-> 0, selected |-> {}, approver |-> "", urgent |-> FALSE,
         prior |-> [orders |-> 0, order_lines |-> 0]]

NoProbe == [kind |-> "none"]

Init ==
    /\ dataDir = FALSE
    /\ schema = FALSE
    /\ store = EmptyStore
    /\ twin = EmptyStore
    /\ last = NoOp
    /\ calls = [seed |-> 0, submit |-> 0]
    /\ probe = NoProbe

\* db.py:30-33
GetEngine ==
    /\ dataDir' = TRUE
    /\ UNCHANGED <<schema, store, twin, last, calls, probe>>

\* (the tables dropped and created again)
InitDb_Recreate ==
    /\ dataDir' = TRUE
    /\ schema' = TRUE
    /\ store' = EmptyStore
    /\ UNCHANGED <<twin, last, calls, probe>>

\* db.py:122-125: create_all creates the missing tables and touches no row
InitDb ==
    /\ dataDir' = TRUE
    /\ schema' = TRUE
    /\ UNCHANGED <<store, twin, last, calls, probe>>

\* db.py:128-134: COUNT(1) FROM items; OperationalError when the table is missing
IsSeeded ==
    /\ dataDir' = TRUE
    /\ last' = [NoOp EXCEPT !.op = "is_seeded", !.before = store,
                            !.raised = ~schema,
                            !.result = schema /\ Len(store.items) > 0]
    /\ UNCHANGED <<schema, store, twin, calls, probe>>

\* seed.py:24-136, with the arguments and the outcomes of Faker and of the clock
\* taken from the given sets
SeedCoreWith(seeds, ns, fakers, todays) ==
    /\ calls.seed < MaxSeedCalls
    /\ \E seed \in seeds, n \in ns, today \in todays, faker \in fakers :
         LET tx == seed_core(store, seed, n, faker, today)
         IN /\ store' = EngineBegin(store, tx)
            /\ last' = [NoOp EXCEPT !.op = "seed_core", !.before = store,
                                    !.raised = tx.raised, !.at = tx.at, !.n = n]
    /\ dataDir' = TRUE
    /\ schema' = TRUE
    /\ calls' = [calls EXCEPT !.seed = @ + 1]
    /\ UNCHANGED <<twin, probe>>

SeedCore == SeedCoreWith(Seeds, NumLocationsArgs, FakerOutcomes, Todays)

\* 1_Supply_Chain.py:157-167: a page run creates the schema and seeds the store
\* when the items table is empty, with the seed of the sidebar (at least 1).  The
\* page leaves num_locations at its default; the model runs it at the base count
\* and at MaxLocations, on one day.
PageLoad ==
    /\ Len(store.items) = 0
    /\ SeedCoreWith(Seeds \ {0}, {Len(base_locations), MaxLocations}, FakerOutcomes,
                    {Ordinal(MaxYear - 1, 11, 1)})

\* 1_Supply_Chain.py:330-350, on a page run that found the items table populated
\* (the form is rendered only when to_order is not empty), with the sidebar
\* selection taken from the given set
SubmitOrdersWith(selections) ==
    /\ calls.submit < MaxSubmissions
    /\ Len(store.items) > 0
    /\ \E selected \in selections, approver \in Approvers, urgent \in BOOLEAN :
         /\ ToOrder(store, selected) # <<>>
         /\ LET tx == generate_orders(store, selected, approver, urgent, calls.submit)
            IN /\ store' = EngineBegin(store, tx)
               /\ last' = [NoOp EXCEPT !.op = "submit", !.before = store,
                                       !.raised = tx.raised, !.at = tx.at,
                                       !.selected = selected,
                                       !.approver = approver, !.urgent = urgent]
    /\ calls' = [calls EXCEPT !.submit = @ + 1]
    /\ UNCHANGED <<dataDir, schema, twin, probe>>

SubmitOrders == SubmitOrdersWith(Selections)

Next == GetEngine \/ InitDb \/ IsSeeded \/ SeedCore

Spec == Init /\ [][Next]_vars

(***************************************************************************)
(* The Supply Chain page alone: page runs that seed the empty store, then  *)
(* submissions of the form.                                                *)
(***************************************************************************)
NextOrders == PageLoad \/ SubmitOrders

SpecOrders == Init /\ [][NextOrders]_vars

(***************************************************************************)
(* Two independent runs of seed_core with the same seed and location       *)
(* count, each on a freshly created empty store (store and twin).  Faker   *)
(* and the clock are not driven by the seed: each run has its own outcome. *)
(***************************************************************************)
PairFirst ==
    /\ probe = NoProbe
    /\ \E seed \in Seeds, n \in NumLocationsArgs, today \in Todays, faker \in FakerOutcomes :
         LET tx == seed_core(EmptyStore, seed, n, faker, today)
         IN /\ store' = EngineBegin(EmptyStore, tx)
            /\ probe' = [kind |-> "pair", seed |-> seed, n |-> n, runs |-> 1]
    /\ dataDir' = TRUE
    /\ schema' = TRUE
    /\ UNCHANGED <<twin, last, calls>>

PairSecond ==
    /\ probe.kind = "pair"
    /\ probe.runs = 1
    /\ \E today \in Todays, faker \in FakerOutcomes :
         LET tx == seed_core(EmptyStore, probe.seed, probe.n, faker, today)
         IN twin' = EngineBegin(EmptyStore, tx)
    /\ probe' = [probe EXCEPT !.runs = 2]
    /\ UNCHANGED <<dataDir, schema, store, last, calls>>

NextPair == PairFirst \/ PairSecond

SpecPair == Init /\ [][NextPair]_vars

(***************************************************************************)
(* seed_core on a partially populated store: any subset of the seven       *)
(* seeded tables already holds rows when the call starts.                  *)
(***************************************************************************)
OrphanId == MaxLocations + 2

OldRows(t) ==
    CASE t = "locations" ->
           {<<[id |-> 1, name |-> base_locations[1], region |-> "NULL"],
              [id |-> 2, name |-> base_locations[2], region |-> "NULL"]>>}
      [] t = "location_geo" ->
           {<<[id |-> 1, location_id |-> 1, lat |-> 13756331, lon |-> 100501762]>>,
            <<[id |-> 1, location_id |-> OrphanId, lat |-> 13756331, lon |-> 100501762]>>}
      [] t = "items" ->
           {InsertRows(<<>>, inventory_items)}
      [] t = "inventory" ->
           {<<[id |-> 1, location_id |-> 1, item_id |-> 1, current_stock |-> 10]>>}
      [] t = "suppliers" ->
           {<<[id |-> 1, name |-> CompanyName(0, 1)]>>}
      [] t = "supplier_metrics" ->
           {InsertRows(<<>>, <<MetricRow(1, 900, 100, 50)>>)}
      [] t = "poct_tests" ->
           {<<[id |-> 1, location_id |-> 1, test_date |-> Epoch, hba1c_result |-> 620]>>}
      [] OTHER -> {}

EmptyOr(t) == OldRows(t) \cup {<<>>}

PartialStores ==
    [locations : EmptyOr("locations"), location_geo : EmptyOr("location_geo"),
     items : EmptyOr("items"), inventory : EmptyOr("inventory"),
     suppliers : EmptyOr("suppliers"), supplier_metrics : EmptyOr("supplier_metrics"),
     poct_tests : EmptyOr("poct_tests"), orders : {<<>>}, order_lines : {<<>>}]

InitPartial ==
    /\ dataDir = TRUE
    /\ schema = TRUE
    /\ store \in PartialStores
    /\ twin = EmptyStore
    /\ last = NoOp
    /\ calls = [seed |-> 0, submit |-> 0]
    /\ probe = NoProbe

\* the first seed_core call on the store
SeedFirst == calls.seed = 0 /\ SeedCore

SpecPartial == InitPartial /\ [][SeedFirst]_vars

(***************************************************************************)
(* The POCT date window as a function of the day seed_core runs on.        *)
(***************************************************************************)
\* every test_date seed_core can insert when date.today() is today
PoctDates(today) ==
    LET start == WindowStart(today)
    IN UNION {LET month_start == MonthStart(start, month_offset)
              IN {month_start + d : d \in 0..(DaysPerMonth - 1)} :
              month_offset \in 0..(Months - 1)}

RunDays == Ordinal(MinYear + 1, 1, 1)..Ordinal(MaxYear - 1, 12, 31)

DateProbe ==
    /\ probe = NoProbe
    /\ \E today \in RunDays :
         probe' = [kind |-> "dates", today |-> today, dates |-> PoctDates(today)]
    /\ UNCHANGED <<dataDir, schema, store, twin, last, calls>>

SpecDate == Init /\ [][DateProbe]_vars

(***************************************************************************)
(* The supplier score as a function of the three drawn metrics, over the   *)
(* whole range of the draws (tenths, hundredths, tenths).                  *)
(***************************************************************************)
ScoreProbe ==
    /\ probe = NoProbe
    /\ \E on_time \in 880..1000, defect \in 20..250, lead \in 20..90 :
         probe' = [kind |-> "score", row |-> MetricRow(1, on_time, defect, lead)]
    /\ UNCHANGED <<dataDir, schema, store, twin, last, calls>>

SpecScore == Init /\ [][ScoreProbe]_vars

(***************************************************************************)
(* The form submitted again: a page run that seeds the store, the first    *)
(* submission on a store without orders, then the button pressed again     *)
(* with the sidebar selection and the approver left as they are.           *)
(***************************************************************************)
FirstSubmit ==
    /\ store.orders = <<>>
    /\ SubmitOrders

\* 1_Supply_Chain.py:310-350 run once more; last.prior keeps the sizes of orders
\* and order_lines before the previous submission
Resubmit ==
    /\ last.op \in {"submit", "resubmit"}
    /\ ~last.raised
    /\ calls.submit < MaxSubmissions + 1
    /\ ToOrder(store, last.selected) # <<>>
    /\ \E urgent \in BOOLEAN :
         LET tx == generate_orders(store, last.selected, last.approver, urgent, calls.submit)
         IN /\ store' = EngineBegin(store, tx)
            /\ last' = [last EXCEPT !.op = "resubmit", !.before = store,
                                    !.raised = tx.raised, !.at = tx.at, !.urgent = urgent,
                                    !.prior = [orders |-> Len(last.before.orders),
                                               order_lines |-> Len(last.before.order_lines)]]
    /\ calls' = [calls EXCEPT !.submit = @ + 1]
    /\ UNCHANGED <<dataDir, schema, twin, probe>>

NextRepeat == PageLoad \/ FirstSubmit \/ Resubmit

SpecRepeat == Init /\ [][NextRepeat]_vars

(***************************************************************************)
(* The batched insert of seed.py:132-136 on its own: a generated list of   *)
(* up to MaxRows rows inserted into the empty poct_tests table in batches  *)
(* of up to MaxChunk rows.                                                 *)
(***************************************************************************)
MaxRows == 12
MaxChunk == 5

\* n rows in generation order, each with its own test_date
GeneratedRows(loc_id, n) ==
    [i \in 1..n |-> [location_id |-> loc_id, test_date |-> Epoch + i, hba1c_result |-> 620]]

ChunkProbe ==
    /\ probe = NoProbe
    /\ \E n \in 0..MaxRows, chunk \in 1..MaxChunk, loc_id \in 1..2 :
         probe' = [kind |-> "chunk", rows |-> GeneratedRows(loc_id, n), chunk |-> chunk,
                   table |-> InsertPoct(<<>>, GeneratedRows(loc_id, n), chunk)]
    /\ UNCHANGED <<dataDir, schema, store, twin, last, calls>>

SpecChunk == Init /\ [][ChunkProbe]_vars

(***************************************************************************)
(* The whole suite on one store: the operations of db.py, seed_core calls  *)
(* in any number up to MaxSeedCalls and, between them, submissions of the  *)
(* form with the sidebar's default selection (every location).  seed_core  *)
(* runs at the base count and at MaxLocations, on one day.                 *)
(***************************************************************************)
SeedCoreApp ==
    SeedCoreWith(Seeds, {Len(base_locations), MaxLocations}, FakerOutcomes,
                 {Ordinal(MaxYear - 1, 11, 1)})

SubmitOrdersApp == SubmitOrdersWith({Range(base_locations)})

NextApp == GetEngine \/ InitDb \/ IsSeeded \/ SeedCoreApp \/ SubmitOrdersApp

SpecApp == Init /\ [][NextApp]_vars

(***************************************************************************)
(* Properties.                                                             *)
(***************************************************************************)
SeedCoreRan == last.op = "seed_core"
SeedCoreReturned == last.op = "seed_core" /\ ~last.raised

\* the rows a table gained in the last operation
NewRows(t) == SubSeq(store[t], Len(last.before[t]) + 1, Len(store[t]))

\* C1: two seed_core runs with the same seed and location count, each on a fresh
\* empty store, leave the same set of rows in each of the seven seeded tables.
C1_SameRows ==
    (probe.kind = "pair" /\ probe.runs = 2) =>
        \A t \in SeededTables : Range(store[t]) = Range(twin[t])

\* C2: a seed_core call made after an earlier one completed on the empty store
\* leaves the row count of every table as it was.
C2_SecondCallNoOp ==
    (SeedCoreRan /\ last.before.items # <<>>) =>
        \A t \in Tables : Len(store[t]) = Len(last.before[t])

\* C3: a seeded table that held rows when seed_core started holds exactly those
\* rows when it is over.
C3_AtMostOnce ==
    SeedCoreRan =>
        \A t \in SeededTables : last.before[t] # <<>> => store[t] = last.before[t]

\* the location_geo rows of a location
GeoRowsOf(loc_id) == {j \in DOMAIN store.location_geo : store.location_geo[j].location_id = loc_id}

\* C4: after seed_core returns, every location has exactly one location_geo row.
C4_OneGeoPerLocation ==
    SeedCoreReturned =>
        \A i \in DOMAIN store.locations : Cardinality(GeoRowsOf(store.locations[i].id)) = 1

\* the inventory rows of a (location, item) pair
InventoryRowsOf(loc_id, item_id) ==
    {j \in DOMAIN store.inventory : /\ store.inventory[j].location_id = loc_id
                                    /\ store.inventory[j].item_id = item_id}

\* C5: after seed_core on the empty store, whatever names Faker generated, there are
\* 5 items, 8 suppliers, one metric row per supplier and one inventory row per
\* (location, item) pair and no other.
C5_Cardinalities ==
    (SeedCoreRan /\ last.before = EmptyStore) =>
        /\ Len(store.items) = Len(inventory_items)
        /\ Len(store.suppliers) = NumSuppliers
        /\ Len(store.supplier_metrics) = Len(store.suppliers)
        /\ \A i \in DOMAIN store.suppliers :
             Cardinality({j \in DOMAIN store.supplier_metrics :
                            store.supplier_metrics[j].supplier_id = store.suppliers[i].id}) = 1
        /\ \A i \in DOMAIN store.locations : \A k \in DOMAIN store.items :
             Cardinality(InventoryRowsOf(store.locations[i].id, store.items[k].id)) = 1
        /\ Len(store.inventory) = Len(store.locations) * Len(store.items)

LocationNames == [i \in 1..Len(store.locations) |-> store.locations[i].name]

\* C6 as stated: seed_core(seed, n) on the empty store leaves exactly n locations.
C6_ExactlyN ==
    (SeedCoreReturned /\ last.before.locations = <<>>) =>
        Len(store.locations) = last.n

\* C6 amended: seed_core(seed, n) on a store without locations never fails on the
\* locations insert and leaves max(n, 6) locations: the six base names first, in
\* order, then branch names; all names are different.
C6_BaseThenPadded ==
    (SeedCoreRan /\ last.before.locations = <<>>) =>
        /\ last.at # "locations"
        /\ ~last.raised =>
             /\ Len(store.locations) = Max(last.n, Len(base_locations))
             /\ SubSeq(LocationNames, 1, Len(base_locations)) = base_locations
             /\ \A i \in DOMAIN LocationNames :
                  i > Len(base_locations) => LocationNames[i] \notin Range(base_locations)
             /\ \A i, j \in DOMAIN LocationNames :
                  i # j => LocationNames[i] # LocationNames[j]

C6_Padded ==
    /\ SeedCoreReturned
    /\ last.before.locations = <<>>
    /\ last.n > Len(base_locations) + 1
    /\ Len(store.locations) = last.n
    /\ LocationNames[last.n - 1] = BranchName(last.n - 1, CityName(0, 1))
    /\ LocationNames[last.n] = BranchName(last.n, CityName(0, 1))

\* C7: when an insert of seed_core raises, the call raises and every table holds
\* exactly the rows it held before the call.
C7_FailureRollsBack ==
    (SeedCoreRan /\ last.raised) => store = last.before

C7_FailedAfterInserts ==
    /\ SeedCoreRan
    /\ last.raised
    /\ last.at = "suppliers"
    /\ last.before.locations = <<>>
    /\ last.before.inventory = <<>>

\* C8: every test_date seed_core can insert on a day lies within the 395 days up
\* to that day.
C8_DateWindow ==
    probe.kind = "dates" =>
        \A d \in probe.dates : probe.today - 395 <= d /\ d <= probe.today

\* 0.7*on_time - 8*defect - 1.5*lead + 30 of a metric row, clamped to [0, 100],
\* in hundredths
SpecScoreOf(row) ==
    LET x == 7 * row.on_time_pct - 8 * row.defect_rate_pct - 15 * row.lead_time_days + 3000
    IN IF x < 0 THEN 0 ELSE IF x > 10000 THEN 10000 ELSE x

\* C9: the stored performance_score is a number of tenths in [0, 100] nearest to
\* clamp(0.7*on_time - 8*defect - 1.5*lead + 30, 0, 100).
C9_Score ==
    probe.kind = "score" =>
        /\ 0 <= probe.row.performance_score
        /\ probe.row.performance_score <= 1000
        /\ 10 * probe.row.performance_score - SpecScoreOf(probe.row) \in -5..5

C9_RoundedScore ==
    /\ probe.kind = "score"
    /\ SpecScoreOf(probe.row) % 10 = 5

\* the inventory lines of a location that were below minimum before the submission
BelowMin(loc_id) ==
    {j \in DOMAIN last.before.inventory :
        /\ last.before.inventory[j].location_id = loc_id
        /\ \E k \in DOMAIN last.before.items :
             /\ last.before.items[k].id = last.before.inventory[j].item_id
             /\ last.before.inventory[j].current_stock < last.before.items[k].min_stock}

\* the ids of the selected locations with a line below minimum
LocationsToOrder ==
    {last.before.locations[i].id : i \in
        {i \in DOMAIN last.before.locations :
            /\ last.before.locations[i].name \in last.selected
            /\ BelowMin(last.before.locations[i].id) # {}}}

\* an order line is for an item below minimum at the order's location, with the
\* quantity that brings the stock to 1.5 times the minimum, rounded to the nearest
\* unit and to the even one of two nearest
LineOk(line, order) ==
    \E j \in BelowMin(order.location_id) : \E k \in DOMAIN last.before.items :
        /\ last.before.inventory[j].item_id = line.item_id
        /\ last.before.items[k].id = line.item_id
        /\ line.qty > 0
        /\ LET r == line.qty + last.before.inventory[j].current_stock
               m == last.before.items[k].min_stock
           IN /\ 2 * r - 3 * m \in -1..1
              /\ 2 * r # 3 * m => r % 2 = 0

\* C10: one submission inserts exactly one order per selected location with a line
\* below minimum, with the chosen approver and urgent flag; every inserted order
\* line belongs to exactly one of these orders and is for an item below minimum
\* there, with a positive quantity of round(1.5 * min_stock) - current_stock.
C10_Orders ==
    (last.op = "submit" /\ ~last.raised) =>
        LET orders == NewRows("orders")
            lines == NewRows("order_lines")
        IN /\ \A loc_id \in LocationsToOrder :
                Cardinality({i \in DOMAIN orders : orders[i].location_id = loc_id}) = 1
           /\ \A i \in DOMAIN orders :
                /\ orders[i].location_id \in LocationsToOrder
                /\ orders[i].approver = last.approver
                /\ orders[i].urgent = last.urgent
           /\ \A l \in DOMAIN lines :
                /\ Cardinality({i \in DOMAIN orders : orders[i].id = lines[l].order_id}) = 1
                /\ \A i \in DOMAIN orders :
                     orders[i].id = lines[l].order_id => LineOk(lines[l], orders[i])

C10_SomeLocationsOrdered ==
    /\ last.op = "submit"
    /\ ~last.raised
    /\ NewRows("order_lines") # <<>>
    /\ LocationsToOrder # {}
    /\ \E i \in DOMAIN last.before.locations :
         /\ last.before.locations[i].name \in last.selected
         /\ last.before.locations[i].id \notin LocationsToOrder

\* the min_stock of the item of an inventory row
MinStockOf(row) ==
    LET k == CHOOSE k \in DOMAIN store.items : store.items[k].id = row.item_id
    IN store.items[k].min_stock

\* C11: every inventory row written by seed_core has a current_stock from
\* max(0, min_stock - 120) up to, and not including, min_stock + 300 of its item,
\* so it is never negative.
C11_StockRange ==
    SeedCoreRan =>
        \A i \in DOMAIN NewRows("inventory") :
            LET row == NewRows("inventory")[i]
            IN /\ row.current_stock \in Int
               /\ row.current_stock >= 0
               /\ row.current_stock >= MinStockOf(row) - 120
               /\ row.current_stock < MinStockOf(row) + 300

\* rows at both ends of the range were written, the lower one for an item whose
\* min_stock is under 120
C11_BothEnds ==
    /\ SeedCoreReturned
    /\ \E i \in DOMAIN NewRows("inventory") :
         LET row == NewRows("inventory")[i]
         IN MinStockOf(row) < 120 /\ row.current_stock = 0
    /\ \E i \in DOMAIN NewRows("inventory") :
         LET row == NewRows("inventory")[i]
         IN row.current_stock = MinStockOf(row) + 299

\* every table's rows before the step are its first rows after it, unaltered
KeepsRows ==
    \A t \in Tables :
        /\ Len(store[t]) <= Len(store'[t])
        /\ SubSeq(store'[t], 1, Len(store[t])) = store[t]

\* C12: no step deletes or alters a committed row; a step other than a seed_core
\* call or a submission (get_engine, init_db, is_seeded) leaves every table as it
\* is, and a seed_core call leaves orders and order_lines as they are.
C12_NoDeletion ==
    [][/\ KeepsRows
       /\ calls' = calls => store' = store
       /\ calls'.seed # calls.seed =>
            /\ store'.orders = store.orders
            /\ store'.order_lines = store.order_lines]_vars

\* a seed_core call has returned on a store that held orders and order lines, and
\* they are still there
C12_SeededOverOrders ==
    /\ SeedCoreReturned
    /\ last.before.orders # <<>>
    /\ last.before.order_lines # <<>>
    /\ store.orders # <<>>

\* C13: whatever the length of the generated list and the batch size, the batched
\* insert leaves in poct_tests every generated row once, in generation order: what
\* one insert of the whole list leaves.
C13_BatchingIsOneInsert ==
    probe.kind = "chunk" =>
        /\ Len(probe.table) = Len(probe.rows)
        /\ \A i \in DOMAIN probe.table :
             /\ probe.table[i].id = i
             /\ probe.table[i].location_id = probe.rows[i].location_id
             /\ probe.table[i].test_date = probe.rows[i].test_date
             /\ probe.table[i].hba1c_result = probe.rows[i].hba1c_result
        /\ probe.table = InsertRows(<<>>, probe.rows)

\* several batches, the last one shorter than the others
C13_ShortLastBatch ==
    /\ probe.kind = "chunk"
    /\ probe.chunk > 1
    /\ Len(probe.rows) > 2 * probe.chunk
    /\ Len(probe.rows) % probe.chunk # 0
    /\ Len(probe.table) = Len(probe.rows)

\* the tables the first six steps of seed_core fill
CoreTables ==
    {"locations", "location_geo", "items", "inventory", "suppliers", "supplier_metrics"}

\* C14: in every state reached from the empty store, the six tables are all empty
\* or all populated; so when is_seeded has returned true, the locations, inventory
\* and supplier tables hold rows too.
C14_AllOrNothing ==
    /\ \/ \A t \in CoreTables : store[t] = <<>>
       \/ \A t \in CoreTables : store[t] # <<>>
    /\ (last.op = "is_seeded" /\ last.result) =>
         /\ store.locations # <<>>
         /\ store.inventory # <<>>
         /\ store.suppliers # <<>>
         /\ store.supplier_metrics # <<>>

\* a seed_core call that failed at the suppliers insert, after the inserts into
\* locations, location_geo, items and inventory, has left the six tables empty
C14_NothingAfterFailure ==
    /\ SeedCoreRan
    /\ last.raised
    /\ last.at = "suppliers"
    /\ \A t \in CoreTables : last.before[t] = <<>> /\ store[t] = <<>>

Submitted == last.op \in {"submit", "resubmit"} /\ ~last.raised

\* the (location, item) pairs below minimum in the given tables
BelowMinPairs(tables) ==
    {<<tables.inventory[j].location_id, tables.inventory[j].item_id>> : j \in
        {j \in DOMAIN tables.inventory :
            \E k \in DOMAIN tables.items :
                /\ tables.items[k].id = tables.inventory[j].item_id
                /\ tables.inventory[j].current_stock < tables.items[k].min_stock}}

\* the orders and order lines of the submission before the last one
PriorOrders == SubSeq(last.before.orders, last.prior.orders + 1, Len(last.before.orders))
PriorLines ==
    SubSeq(last.before.order_lines, last.prior.order_lines + 1, Len(last.before.order_lines))

\* C15: a submission changes no table but orders and order_lines, so the lines
\* below minimum stay what they were; a further submission with the same location
\* filter inserts as many orders and order lines as the previous one, for the same
\* locations, items and quantities, attached to the orders in the same way.
C15_FrameAndRepeat ==
    /\ Submitted =>
         /\ \A t \in Tables \ {"orders", "order_lines"} : store[t] = last.before[t]
         /\ BelowMinPairs(store) = BelowMinPairs(last.before)
    /\ (Submitted /\ last.op = "resubmit") =>
         LET orders == NewRows("orders")
             lines == NewRows("order_lines")
         IN /\ Len(orders) = Len(PriorOrders)
            /\ Len(lines) = Len(PriorLines)
            /\ \A i \in DOMAIN orders : orders[i].location_id = PriorOrders[i].location_id
            /\ \A l \in DOMAIN lines :
                 /\ lines[l].item_id = PriorLines[l].item_id
                 /\ lines[l].qty = PriorLines[l].qty
                 /\ lines[l].order_id - orders[1].id = PriorLines[l].order_id - PriorOrders[1].id

\* the form submitted a second time has doubled several orders and their lines
C15_Duplicated ==
    /\ Submitted
    /\ last.op = "resubmit"
    /\ Len(NewRows("orders")) > 1
    /\ Len(NewRows("order_lines")) > 1
    /\ Len(store.orders) = 2 * Len(last.before.orders)
====
